---- MODULE Spec2Model ----
(***************************************************************************)
(* Model of mbed_flasher/flashers/FlasherMbed.py: the direct-copy flash    *)
(* sequence (FlasherMbed.flash), the serial reset (reset_board), the       *)
(* identity resolver (check_points_unchanged) and the remount watcher      *)
(* thread (runner, auxiliary_drive_check), run against a board that        *)
(* consumes the image, writes marker files and remounts on its own.        *)
(*                                                                         *)
(* Strings are sequences: a path is the sequence of its components         *)
(* ('/dev/ttyACM0' is <<"dev", "ttyACM0">>), a target_id and a file's      *)
(* text are sequences of characters, a file name is <<stem, extension>>.   *)
(***************************************************************************)
EXTENDS Integers, Sequences, FiniteSets, TLC

VARIABLES
    platform,    \* platform.system(): "Windows", "Darwin" or "Linux"
    py3,         \* TRUE when the interpreter is Python 3 (the module targets 2 and 3 via six)
    method,      \* flash() argument: "simple", "pyocd" or "edbg"
    no_reset,    \* flash() argument
    target,      \* flash() argument: dict, a function from keys to strings
    source,      \* the file flash()'s source names: "ok", "empty" or "unreadable"
    failText,    \* the text of FAIL.TXT once the board has written one, <<>> before
    boardPort,   \* the leaf name of the serial device the board has now
    boardMount,  \* the directory the board's drive is mounted on now, <<>> when unmounted
    diskFiles,   \* the set of file names on the board's drive
    pc,          \* position of flash()
    ret,         \* value flash() returned (read when pc = "done" and exc = "none")
    exc,         \* exception that escaped flash(), "none" if none
    new_target,  \* result of check_points_unchanged (line 242)
    written,     \* what the write step stored on the drive: "none", "full", "short"
    wpc,         \* position of the runner thread: "idle", "sleep", "check", "dead"
    elapsed,     \* time() - start_time of the runner thread, in seconds
    wresult,     \* how the runner thread ended: "none", "settled", "timedout", "crashed"
    resetLog,    \* the reset_board calls made so far, in order, each with the serial
                 \* device the board had when the call was made
    faultMsg,    \* the fault text logged with "Flashing failed", <<>> if none
    inspected,   \* the files the verification step looked for or opened
    probeLog,    \* the calls made to the pyOCD board, in order
    cpuIn,       \* inputs of a stand-alone check_points_unchanged call
    cpuOut       \* its result

vars == <<platform, py3, method, no_reset, target, source, failText, boardPort, boardMount,
          diskFiles, pc, ret, exc, new_target, written, wpc, elapsed, wresult,
          resetLog, faultMsg, inspected, probeLog, cpuIn, cpuOut>>

----------------------------------------------------------------------------
\* Bounds of the model

\* by-id entries in a listing besides the board's own, in the flash runs
MaxExtra == 1
\* longest by-id listing given to a stand-alone check_points_unchanged call
MaxLines == 2

\* runner iterations whose listing returns at once; every later listing takes
\* as long as the timeout
MaxPolls == 3

----------------------------------------------------------------------------
\* Program constants

FLASHING_VERIFICATION_TIMEOUT == 100
MountAttempts == 10
\* sleep(2) at the head of every runner iteration
PollSeconds == 2

----------------------------------------------------------------------------
\* String helpers

Last(s) == s[Len(s)]

\* str.find(needle) != -1
Found(hay, needle) ==
    \E i \in 0..(Len(hay) - Len(needle)) : SubSeq(hay, i + 1, i + Len(needle)) = needle

Whitespace == {" ", "\n"}

RECURSIVE LStrip(_)
LStrip(s) == IF s # <<>> /\ Head(s) \in Whitespace THEN LStrip(Tail(s)) ELSE s

RECURSIVE RStrip(_)
RStrip(s) ==
    IF s # <<>> /\ Last(s) \in Whitespace THEN RStrip(SubSeq(s, 1, Len(s) - 1)) ELSE s

\* str.strip()
Strip(s) == RStrip(LStrip(s))

\* dict helpers: a dict is a function whose domain is its set of keys
Has(d, k) == k \in DOMAIN d
Put(d, k, v) == [x \in (DOMAIN d) \cup {k} |-> IF x = k THEN v ELSE d[x]]
EmptyDict == [x \in {} |-> <<>>]

----------------------------------------------------------------------------
\* check_points_unchanged (lines 106-168)

\* What a call gave back: an int (error code), a dict, or a KeyError raised by
\* target['serial_port'] on a descriptor that has no such key.
NoResult == [kind |-> "none", code |-> 0, dict |-> EmptyDict]
IntResult(c) == [kind |-> "int", code |-> c, dict |-> EmptyDict]
DictResult(d) == [kind |-> "dict", code |-> 0, dict |-> d]
RaiseResult == [kind |-> "raise", code |-> 0, dict |-> EmptyDict]

\* line 119 / 128: '/dev/' + line.split('/')[-1]
DevPath(line) == <<"dev", Last(line.link)>>

\* lines 115-123: the loop over `ls -oA /dev/serial/by-id/`, from line i on.
\* A line is [name |-> the entry's name, link |-> the path it points to].
RECURSIVE SerialScan(_, _, _, _)
SerialScan(lines, i, tgt, nt) ==
    IF i > Len(lines) THEN DictResult(nt)
    ELSE IF ~Found(lines[i].name, tgt["target_id"]) THEN SerialScan(lines, i + 1, tgt, nt)
    ELSE IF ~Has(tgt, "serial_port") THEN RaiseResult
    ELSE IF Last(tgt["serial_port"]) = Last(lines[i].link)
         THEN SerialScan(lines, i + 1, tgt, nt)
    ELSE IF ~Has(nt, "serial_port")
         THEN SerialScan(lines, i + 1, tgt, Put(nt, "serial_port", DevPath(lines[i])))
    ELSE IntResult(-10)

\* lines 125-132: the loop over `ls -oA /dev/disk/by-id/`, from line i on
RECURSIVE DiskScan(_, _, _, _)
DiskScan(lines, i, tgt, nt) ==
    IF i > Len(lines) THEN DictResult(nt)
    ELSE IF ~Found(lines[i].name, tgt["target_id"]) THEN DiskScan(lines, i + 1, tgt, nt)
    ELSE IF ~Has(nt, "dev_point")
         THEN DiskScan(lines, i + 1, tgt, Put(nt, "dev_point", DevPath(lines[i])))
    ELSE IntResult(-11)

\* line 124: dev_points = [] ; nothing is ever appended to it
dev_points == <<>>

\* line 139 / 143: mount.split('on')[1].split('type')[0].strip(), the directory
\* of a `mount` line "<dev> on <dir> type vfat ...", kept as [dev |-> , on |-> ]
MountedOn(mount) == mount.on

\* lines 134-152: up to MountAttempts reads of `mount |grep vfat`, from attempt i
\* on; polls[i] is the table read at attempt i, a sequence of mount lines.
RECURSIVE MountPoll(_, _, _, _)
MountPoll(polls, i, tgt, nt) ==
    IF i > MountAttempts THEN IntResult(-12)
    ELSE LET hits == {j \in 1..Len(polls[i]) : Found(polls[i][j].dev, nt["dev_point"])}
         IN  IF hits = {} THEN MountPoll(polls, i + 1, tgt, nt)
             ELSE LET first == CHOOSE j \in hits : \A k \in hits : j <= k
                      dir == MountedOn(polls[i][first])
                  IN  IF tgt["mount_point"] = dir
                      THEN DictResult(nt)
                      ELSE DictResult(Put(nt, "mount_point", dir))

\* lines 154-168: a non-empty new_target gets the target_id and is returned,
\* otherwise the caller's target is
Merge(tgt, nt) ==
    IF DOMAIN nt # {} THEN DictResult(Put(nt, "target_id", tgt["target_id"]))
    ELSE DictResult(tgt)

\* lines 108-111: Windows; q1 and q2 are the answers of the two
\* mbeds.get_mbed_com_port(target_id) calls
WindowsScan(tgt, q1, q2) ==
    IF ~Has(tgt, "serial_port") THEN RaiseResult
    ELSE IF tgt["serial_port"] # q1 THEN DictResult(Put(EmptyDict, "serial_port", q2))
    ELSE DictResult(EmptyDict)

\* lines 115-152: the by-id platforms
ByIdScan(tgt, env) ==
    LET s == SerialScan(env.serial, 1, tgt, EmptyDict)
    IN  IF s.kind # "dict" THEN s
        ELSE LET d == DiskScan(env.disk, 1, tgt, s.dict)
             IN  IF d.kind # "dict" THEN d
                 ELSE IF dev_points # <<>> THEN MountPoll(env.polls, 1, tgt, d.dict)
                 ELSE d

\* check_points_unchanged(target) on platform plat, where env holds what the
\* system answers: [q1, q2, serial, disk, polls]
CheckPointsUnchanged(plat, tgt, env) ==
    LET scan == IF plat = "Windows" THEN WindowsScan(tgt, env.q1, env.q2)
                ELSE IF plat = "Darwin" THEN DictResult(EmptyDict)
                ELSE ByIdScan(tgt, env)
    IN  IF scan.kind # "dict" THEN scan ELSE Merge(tgt, scan.dict)

\* The dict objects of a call: the caller's target and the dict new_target
\* names. Every store of the function (lines 111, 119, 128, 143, 165) is a
\* store into the object new_target names.

\* a check_points_unchanged that starts with new_target = target
NewTargetAliased == "caller"

\* line 107: new_target = {} makes a dict of its own
NewTargetObject == "local"

\* the stores a loop has made when it ends, returns or raises: those of the
\* longest run of lines it gets through
SerialStores(lines, tgt, nt) ==
    LET good == {k \in 0..Len(lines) :
                    SerialScan(SubSeq(lines, 1, k), 1, tgt, nt).kind = "dict"}
        k == CHOOSE x \in good : \A j \in good : j <= x
    IN  SerialScan(SubSeq(lines, 1, k), 1, tgt, nt).dict

DiskStores(lines, tgt, nt) ==
    LET good == {k \in 0..Len(lines) :
                    DiskScan(SubSeq(lines, 1, k), 1, tgt, nt).kind = "dict"}
        k == CHOOSE x \in good : \A j \in good : j <= x
    IN  DiskScan(SubSeq(lines, 1, k), 1, tgt, nt).dict

\* the keys stored into new_target by the time the call is over, with their
\* last values
StoresOfCall(plat, tgt, env) ==
    LET scanned ==
            IF plat = "Windows"
            THEN LET w == WindowsScan(tgt, env.q1, env.q2)
                 IN  IF w.kind = "dict" THEN w.dict ELSE EmptyDict
            ELSE IF plat = "Darwin" THEN EmptyDict
            ELSE LET s == SerialStores(env.serial, tgt, EmptyDict)
                 IN  IF SerialScan(env.serial, 1, tgt, EmptyDict).kind # "dict" THEN s
                     ELSE DiskStores(env.disk, tgt, s)
        r == CheckPointsUnchanged(plat, tgt, env)
    IN  IF r.kind = "dict" /\ DOMAIN scanned # {}
        THEN Put(scanned, "target_id", tgt["target_id"])      \* line 165
        ELSE scanned

\* the caller's dict when the call is over
CallerAfter(plat, tgt, env) ==
    IF NewTargetObject = "caller"
    THEN LET st == StoresOfCall(plat, tgt, env)
         IN  [k \in (DOMAIN tgt) \cup (DOMAIN st) |-> IF k \in DOMAIN st THEN st[k] ELSE tgt[k]]
    ELSE tgt

----------------------------------------------------------------------------
\* The inputs the runs draw from

Platforms == {"Windows", "Darwin", "Linux"}
TID == <<"a", "b">>
Ports == {"ttyACM0", "ttyACM1"}
\* the serial device of some other hardware
OtherPort == "ttyACM2"
Disks == {"sdb", "sdc"}
M0 == <<"media", "MBED">>
M1 == <<"media", "MBED1">>
PortPath(p) == <<"dev", p>>

\* names of by-id entries: the first two contain TID, the third does not
OwnName == <<"u", "a", "b">>
EntryNames == {OwnName, <<"a", "b", "v">>, <<"b", "a">>}
ByIdLines(names, leaves) == [name : names, link : {<<"..", "..", l>> : l \in leaves}]

SeqsUpTo(S, n) == UNION {[1..k -> S] : k \in 0..n}

\* the listings of a by-id directory with at most n entries: no name twice,
\* no two entries for one device
Listings(names, leaves, n) ==
    {l \in SeqsUpTo(ByIdLines(names, leaves), n) :
        \A i, j \in 1..Len(l) :
            (l[i].name = l[j].name \/ l[i].link = l[j].link) => i = j}

\* descriptors: serial_port is one of the ports or missing
Descriptor(p) == Put(Put(Put(EmptyDict, "target_id", TID), "mount_point", M0),
                     "serial_port", PortPath(p))
NoSerialDescriptor == Put(Put(EmptyDict, "target_id", TID), "mount_point", M0)
Descriptors == {Descriptor(p) : p \in Ports} \cup {NoSerialDescriptor}

\* the mount table as read at each of the attempts: nothing until attempt k,
\* from then on device d mounted on dir (k = MountAttempts + 1: never)
Polls(k, d, dir) ==
    [i \in 1..MountAttempts |-> IF i < k THEN <<>> ELSE <<[dev |-> <<"dev", d>>, on |-> dir]>>]
PollChoices ==
    {Polls(k, "sdb", dir) : k \in {1, MountAttempts, MountAttempts + 1}, dir \in {M0, M1}}

NoEnv == [q1 |-> <<>>, q2 |-> <<>>, serial |-> <<>>, disk |-> <<>>, polls |-> Polls(1, "sdb", M0)]

----------------------------------------------------------------------------
\* The files of the mounted drive

FAIL_TXT == <<"FAIL", "TXT">>
ASSERT_TXT == <<"ASSERT", "TXT">>
MBED_HTM == <<"MBED", "HTM">>
\* tail of os.path.split(os.path.abspath(source)) (line 189), source being
\* /home/fw.bin
tail == <<"fw", "bin">>

\* the text the board writes into ASSERT.TXT
AssertText == <<"a", "\n">>
FailTexts == {<<"c">>, <<" ", "c", "\n">>}

\* what a listing of directory dir shows: the drive's files where the board is
\* mounted, nothing elsewhere
Listing(dir) == IF boardMount # <<>> /\ dir = boardMount THEN diskFiles ELSE {}

\* isfile(join(dir, name))
IsFile(dir, name) == name \in Listing(dir)

\* open(join(dir, name)).read()
ReadText(name) == IF name = FAIL_TXT THEN failText ELSE AssertText

----------------------------------------------------------------------------
\* reset_board (lines 50-73)

\* How a reset_board call ends when EnhancedSerial(serial_port) opened or raised
\* SerialException. In the handler, line 56 reads e.message: that attribute
\* exists on Python 2 and not on Python 3, where reading it raises
\* AttributeError out of reset_board.
ResetBoard(opened, p3) ==
    IF opened THEN "none"           \* lines 59-73, returns None
    ELSE IF p3 THEN "AttributeError" \* line 56
    ELSE "-6"                        \* line 58

----------------------------------------------------------------------------
\* flash (lines 170-286): the decisions it takes

\* line 212
PreResetWanted(tgt, nr) == Has(tgt, "serial_port") /\ ~nr

\* a post-write reset that forgets the no_reset flag
PostResetAlways(nr) == TRUE

\* line 251
PostResetWanted(nr) == ~nr

\* a post-write reset that always goes to the caller's serial port
PostResetPortStale(nt, tgt) ==
    IF Has(tgt, "serial_port") THEN tgt["serial_port"] ELSE <<>>

\* lines 252-255: the port of the second reset; <<>> stands for the KeyError
\* of target['serial_port'] on a descriptor without the key
PostResetPort(nt, tgt) ==
    IF Has(nt, "serial_port") THEN nt["serial_port"]
    ELSE IF Has(tgt, "serial_port") THEN tgt["serial_port"]
    ELSE <<>>

\* lines 260-263: the directory the verification looks into
VerifyMount(nt, tgt) ==
    IF Has(nt, "mount_point") THEN nt["mount_point"] ELSE tgt["mount_point"]

\* a verification with the test of line 274 inverted
VerificationInverted(hasFail, hasAssert, hasImage) ==
    IF hasFail
    THEN [ret |-> -4, read |-> FAIL_TXT, looked |-> {FAIL_TXT}]
    ELSE IF hasAssert
    THEN [ret |-> -4, read |-> ASSERT_TXT, looked |-> {FAIL_TXT, ASSERT_TXT}]
    ELSE IF ~hasImage
    THEN [ret |-> -15, read |-> <<>>, looked |-> {FAIL_TXT, ASSERT_TXT, tail}]
    ELSE [ret |-> 0, read |-> <<>>, looked |-> {FAIL_TXT, ASSERT_TXT, tail}]

\* a verification that looks for ASSERT.TXT before FAIL.TXT
VerificationAssertFirst(hasFail, hasAssert, hasImage) ==
    IF hasAssert
    THEN [ret |-> -4, read |-> ASSERT_TXT, looked |-> {ASSERT_TXT}]
    ELSE IF hasFail
    THEN [ret |-> -4, read |-> FAIL_TXT, looked |-> {ASSERT_TXT, FAIL_TXT}]
    ELSE IF hasImage
    THEN [ret |-> -15, read |-> <<>>, looked |-> {FAIL_TXT, ASSERT_TXT, tail}]
    ELSE [ret |-> 0, read |-> <<>>, looked |-> {FAIL_TXT, ASSERT_TXT, tail}]

\* lines 264-279: the verification, given which of the three files isfile()
\* finds: the value returned, the file whose text is read and logged (<<>> if
\* none), and the files looked for
Verification(hasFail, hasAssert, hasImage) ==
    IF hasFail
    THEN [ret |-> -4, read |-> FAIL_TXT, looked |-> {FAIL_TXT}]
    ELSE IF hasAssert
    THEN [ret |-> -4, read |-> ASSERT_TXT, looked |-> {FAIL_TXT, ASSERT_TXT}]
    ELSE IF hasImage
    THEN [ret |-> -15, read |-> <<>>, looked |-> {FAIL_TXT, ASSERT_TXT, tail}]
    ELSE [ret |-> 0, read |-> <<>>, looked |-> {FAIL_TXT, ASSERT_TXT, tail}]

\* lines 266 / 271: fault.read().strip()
FaultText(name) == Strip(ReadText(name))

\* a check of the resolver's result that knows only the remount error
IsIdentityErrorOnlyRemount(r) == r.kind = "int" /\ r.code = -12

\* lines 244-245: isinstance(new_target, int)
IsIdentityError(r) == r.kind = "int"

\* lines 215-239 and 280-286: the read of the source and the write to the
\* drive. src: the source is "ok", "empty" or "unreadable"; io: how the copy or
\* the os.open/os.write went ("ok", "failed", "short").
\* Gives how the step ends (go on, return a value, raise) and what reached the
\* drive: "none", "full", "short" or "empty" (an empty image).
\* An OSError of os.open/os.write reaches `except OSError` on Python 2; on
\* Python 3 IOError is OSError, so `except IOError` comes first and re-raises.
WriteStep(plat, p3, src, io) ==
    IF src = "unreadable"
    THEN [end |-> "raise", exc |-> "IOError", ret |-> 0, written |-> "none"]
    ELSE IF plat = "Windows"
    THEN [end |-> "go", exc |-> "none", ret |-> 0,          \* os.system's status is unread
          written |-> IF io # "ok" THEN "none"
                      ELSE IF src = "empty" THEN "empty" ELSE "full"]
    ELSE IF src = "empty"
    THEN [end |-> "return", exc |-> "none", ret |-> -7, written |-> "none"]
    ELSE IF io = "failed"
    THEN IF p3 THEN [end |-> "raise", exc |-> "OSError", ret |-> 0, written |-> "none"]
         ELSE [end |-> "return", exc |-> "none", ret |-> -14, written |-> "none"]
    ELSE [end |-> "go", exc |-> "none", ret |-> 0,          \* os.write's count is unread
          written |-> IF io = "short" THEN "short" ELSE "full"]

----------------------------------------------------------------------------
\* runner and auxiliary_drive_check (lines 75-104)

\* out.find(b'.HTM') != -1 over a listing
ShowsHTM(out) == \E f \in out : f[2] = "HTM"

\* lines 95-97: the first settle condition
SettledByListing(out, name) == ShowsHTM(out) /\ name \notin out

\* lines 75-83: auxiliary_drive_check on the listing os.listdir gave
AuxiliaryDriveCheck(out, name) == ShowsHTM(out) /\ name \notin out

\* line 102
TimedOut(e) == e > FLASHING_VERIFICATION_TIMEOUT

\* the seconds a listing (lines 89-94) may take when it starts e seconds after
\* start_time
ListingSeconds(e) ==
    {FLASHING_VERIFICATION_TIMEOUT} \cup (IF e < MaxPolls * PollSeconds THEN {0} ELSE {})

----------------------------------------------------------------------------
\* What check_points_unchanged is answered when the board is where it is now:
\* its own by-id entries, then the extra ones

SystemNow(q2, extraSerial, extraDisk) ==
    [q1 |-> PortPath(boardPort),
     q2 |-> PortPath(q2),
     serial |-> <<[name |-> OwnName, link |-> <<"..", "..", boardPort>>]>> \o extraSerial,
     disk |-> (IF boardMount # <<>>
               THEN <<[name |-> OwnName, link |-> <<"..", "..", "sdb">>]>>
               ELSE <<>>) \o extraDisk,
     polls |-> [i \in 1..MountAttempts |->
                  IF boardMount # <<>>
                  THEN <<[dev |-> <<"dev", "sdb">>, on |-> boardMount]>>
                  ELSE <<>>]]

----------------------------------------------------------------------------
\* The flash run

Init ==
    /\ platform \in Platforms
    /\ py3 \in BOOLEAN
    /\ method \in {"simple", "pyocd", "edbg"}
    /\ no_reset \in BOOLEAN
    /\ target \in {Descriptor("ttyACM0"), NoSerialDescriptor}
    /\ source \in {"ok", "empty", "unreadable"}
    /\ failText = <<>>
    /\ boardPort = "ttyACM0"
    /\ boardMount = M0
    /\ diskFiles \in {{}, {MBED_HTM}}
    /\ pc = "start"
    /\ ret = 1              \* flash returns no such value: nothing returned yet
    /\ exc = "none"
    /\ new_target = NoResult
    /\ written = "none"
    /\ wpc = "idle"
    /\ elapsed = 0
    /\ wresult = "none"
    /\ resetLog = <<>>
    /\ faultMsg = <<>>
    /\ inspected = {}
    /\ probeLog = <<>>
    /\ cpuIn = NoEnv
    /\ cpuOut = NoResult

inputs == <<platform, py3, method, no_reset, target, source, cpuIn, cpuOut>>
args == <<platform, py3, method, no_reset, source, cpuIn, cpuOut>>
board == <<boardPort, boardMount, diskFiles, failText>>
runnerVars == <<wpc, elapsed, wresult>>

Return(v) == pc' = "done" /\ ret' = v /\ exc' = exc
Raise(e) == pc' = "done" /\ exc' = e /\ ret' = ret

\* lines 177-190
Begin ==
    /\ pc = "start"
    /\ \/ method = "pyocd" /\ Return(-8)        \* ImportError
       \/ method = "pyocd" /\ pc' = "probe" /\ UNCHANGED <<ret, exc>>
       \/ method = "edbg" /\ Return(-13)
       \/ method = "simple" /\ pc' = "prereset" /\ UNCHANGED <<ret, exc>>
    /\ UNCHANGED <<inputs, board, runnerVars, new_target, written, resetLog, faultMsg,
                   inspected, probeLog>>

ProbeCalls == <<"reset", "flashBinary", "reset">>

\* lines 194-209: n calls reach the board before how ends the block
Probe ==
    /\ pc = "probe"
    /\ \E n \in 0..Len(ProbeCalls), how \in {"ok", "AttributeError", "Exception"} :
          /\ how = "ok" => n = Len(ProbeCalls)
          /\ probeLog' = SubSeq(ProbeCalls, 1, n)
          /\ IF how = "ok" THEN Return(0)
             ELSE IF how = "AttributeError" THEN Return(-4)
             ELSE Raise(how)
    /\ UNCHANGED <<inputs, board, runnerVars, new_target, written, resetLog, faultMsg,
                   inspected>>

\* lines 212-214
PreReset ==
    /\ pc = "prereset"
    /\ IF PreResetWanted(target, no_reset)
       THEN \E opened \in BOOLEAN :
              /\ resetLog' = Append(resetLog, [phase |-> "pre", port |-> target["serial_port"],
                                               opened |-> opened, board |-> boardPort])
              /\ IF ResetBoard(opened, py3) = "AttributeError"
                 THEN Raise("AttributeError")
                 ELSE pc' = "write" /\ UNCHANGED <<ret, exc>>
       ELSE pc' = "write" /\ UNCHANGED <<ret, exc, resetLog>>
    /\ UNCHANGED <<inputs, board, runnerVars, new_target, written, faultMsg,
                   inspected, probeLog>>

\* lines 215-240
Write ==
    /\ pc = "write"
    /\ \E io \in {"ok", "failed", "short"} :
          LET w == WriteStep(platform, py3, source, io)
          IN  /\ written' = w.written
              /\ diskFiles' = IF w.written # "none" /\ target["mount_point"] = boardMount
                              THEN diskFiles \cup {tail} ELSE diskFiles
              /\ IF w.end = "raise" THEN Raise(w.exc)
                 ELSE IF w.end = "return" THEN Return(w.ret)
                 ELSE pc' = "resolve" /\ UNCHANGED <<ret, exc>>
    /\ UNCHANGED <<inputs, boardPort, boardMount, failText, runnerVars, new_target, resetLog, faultMsg,
                   inspected, probeLog>>

\* lines 242-248: check_points_unchanged, then either the return of its error
\* or the start of the runner thread
Resolve ==
    /\ pc = "resolve"
    /\ \E q2 \in Ports, es \in Listings(EntryNames \ {OwnName}, {OtherPort}, MaxExtra),
          ed \in Listings(EntryNames \ {OwnName}, {"sdc"}, MaxExtra) :
          /\ new_target' = CheckPointsUnchanged(platform, target, SystemNow(q2, es, ed))
          /\ target' = CallerAfter(platform, target, SystemNow(q2, es, ed))
    /\ IF IsIdentityError(new_target') THEN Return(new_target'.code) /\ UNCHANGED runnerVars
       ELSE IF new_target'.kind = "raise" THEN Raise("KeyError") /\ UNCHANGED runnerVars
       ELSE /\ pc' = "join"
            /\ wpc' = "sleep" /\ elapsed' = 0 /\ wresult' = "none"
            /\ UNCHANGED <<ret, exc>>
    /\ UNCHANGED <<args, board, written, resetLog, faultMsg, inspected, probeLog>>

\* lines 88-104: one iteration of the runner thread on
\* drive = [target['mount_point'], tail]
RunnerPoll ==
    /\ wpc = "sleep"
    /\ \E d \in ListingSeconds(elapsed) : elapsed' = elapsed + PollSeconds + d
    /\ LET out == Listing(target["mount_point"])
       IN  IF SettledByListing(out, tail)
           THEN wpc' = "dead" /\ wresult' = "settled"
           ELSE IF platform = "Windows" /\ out = {}
           THEN wpc' = "aux" /\ wresult' = wresult
           ELSE IF TimedOut(elapsed')
           THEN wpc' = "dead" /\ wresult' = "timedout"
           ELSE wpc' = "sleep" /\ wresult' = wresult
    /\ UNCHANGED <<inputs, board, pc, ret, exc, new_target, written, resetLog, faultMsg,
                   inspected, probeLog>>

\* lines 100-104 on Windows after an empty `dir`: os.listdir raises OSError in
\* the thread when the directory is gone, otherwise auxiliary_drive_check
\* decides, and then the timeout does
RunnerAux ==
    /\ wpc = "aux"
    /\ IF boardMount = <<>> \/ target["mount_point"] # boardMount
       THEN wpc' = "dead" /\ wresult' = "crashed"
       ELSE IF AuxiliaryDriveCheck(Listing(target["mount_point"]), tail)
       THEN wpc' = "dead" /\ wresult' = "settled"
       ELSE IF TimedOut(elapsed)
       THEN wpc' = "dead" /\ wresult' = "timedout"
       ELSE wpc' = "sleep" /\ wresult' = wresult
    /\ UNCHANGED <<inputs, board, pc, ret, exc, new_target, written, elapsed, resetLog,
                   faultMsg, inspected, probeLog>>

\* a join loop that never sees the thread end
IsAliveAlways(w) == TRUE

\* a thread that is started and not waited for
IsAliveNever(w) == FALSE

\* line 249: t.is_alive(), w being the position of the runner thread
IsAlive(w) == w # "dead"

\* lines 249-256: the join loop ends once the thread is no longer alive, and
\* the second reset follows at once
JoinAndReset ==
    /\ pc = "join"
    /\ ~IsAlive(wpc)
    /\ elapsed' = 0        \* the thread and its start_time are gone
    /\ IF PostResetWanted(no_reset)
       THEN LET port == PostResetPort(new_target.dict, target)
            IN  IF port = <<>>
                THEN Raise("KeyError") /\ UNCHANGED resetLog
                ELSE \E opened \in BOOLEAN :
                       /\ resetLog' = Append(resetLog, [phase |-> "post", port |-> port,
                                                        opened |-> opened, board |-> boardPort])
                       /\ IF ResetBoard(opened, py3) = "AttributeError"
                          THEN Raise("AttributeError")
                          ELSE pc' = "verify" /\ UNCHANGED <<ret, exc>>
       ELSE pc' = "verify" /\ UNCHANGED <<ret, exc, resetLog>>
    /\ UNCHANGED <<inputs, board, wpc, wresult, new_target, written, faultMsg,
                   inspected, probeLog>>

\* lines 258-279; readable: whether open() of a marker file found succeeds
Verify ==
    /\ pc = "verify"
    /\ LET mount == VerifyMount(new_target.dict, target)
           v == Verification(IsFile(mount, FAIL_TXT), IsFile(mount, ASSERT_TXT),
                             IsFile(mount, tail))
       IN  /\ inspected' = {[dir |-> mount, name |-> f] : f \in v.looked}
           /\ \E readable \in BOOLEAN :
                IF v.read # <<>> /\ ~readable
                THEN Raise("IOError") /\ faultMsg' = faultMsg
                ELSE /\ Return(v.ret)
                     /\ faultMsg' = IF v.read # <<>> THEN FaultText(v.read) ELSE faultMsg
    /\ UNCHANGED <<inputs, board, runnerVars, new_target, written, resetLog,
                   probeLog>>

\* The board acts while flash sleeps (lines 240 and 256) and while the runner
\* thread is alive; the join returns as soon as the thread has ended
BoardActive == pc \in {"resolve", "verify"} \/ (pc = "join" /\ wpc # "dead")

\* the board takes the image off its drive
BoardConsume ==
    /\ BoardActive
    /\ tail \in diskFiles
    /\ diskFiles' = diskFiles \ {tail}
    /\ UNCHANGED <<inputs, boardPort, boardMount, failText, runnerVars, pc, ret, exc, new_target,
                   written, resetLog, faultMsg, inspected, probeLog>>

\* the board puts a marker file or its status page on its drive
BoardMark ==
    /\ BoardActive
    /\ \E f \in {FAIL_TXT, ASSERT_TXT, MBED_HTM} \ diskFiles :
          /\ diskFiles' = diskFiles \cup {f}
          /\ IF f = FAIL_TXT THEN failText' \in FailTexts ELSE failText' = failText
    /\ UNCHANGED <<inputs, boardPort, boardMount, runnerVars, pc, ret, exc, new_target,
                   written, resetLog, faultMsg, inspected, probeLog>>

\* the board's drive goes away, or comes back on some mount point with some
\* serial device
BoardRemount ==
    /\ BoardActive
    /\ \E m \in {<<>>, M0, M1}, p \in Ports :
          /\ <<m, p>> # <<boardMount, boardPort>>
          /\ boardMount' = m
          /\ boardPort' = p
    /\ UNCHANGED <<inputs, diskFiles, failText, runnerVars, pc, ret, exc, new_target,
                   written, resetLog, faultMsg, inspected, probeLog>>

Next ==
    \/ Begin \/ Probe \/ PreReset \/ Write \/ Resolve
    \/ RunnerPoll \/ RunnerAux \/ JoinAndReset \/ Verify
    \/ BoardConsume \/ BoardMark \/ BoardRemount

Spec == Init /\ [][Next]_vars

----------------------------------------------------------------------------
\* A stand-alone call of check_points_unchanged on drawn answers of the system

InitCPU ==
    /\ platform \in Platforms
    /\ target \in Descriptors
    /\ \/ /\ platform = "Linux"
          /\ \E sl \in Listings(EntryNames, Ports \cup {OtherPort}, MaxLines),
                dl \in Listings(EntryNames, Disks, MaxLines), pl \in PollChoices :
                cpuIn = [q1 |-> <<>>, q2 |-> <<>>, serial |-> sl, disk |-> dl, polls |-> pl]
       \/ /\ platform = "Windows"
          /\ \E a, b \in Ports : cpuIn = [NoEnv EXCEPT !.q1 = PortPath(a), !.q2 = PortPath(b)]
       \/ /\ platform = "Darwin"
          /\ cpuIn = NoEnv
    /\ cpuOut = NoResult
    /\ py3 = FALSE /\ method = "simple" /\ no_reset = FALSE /\ source = "ok"
    /\ failText = <<>> /\ boardPort = "ttyACM0" /\ boardMount = M0 /\ diskFiles = {}
    /\ pc = "idle" /\ ret = 1 /\ exc = "none" /\ new_target = NoResult /\ written = "none"
    /\ wpc = "idle" /\ elapsed = 0 /\ wresult = "none"
    /\ resetLog = <<>> /\ faultMsg = <<>> /\ inspected = {} /\ probeLog = <<>>

CPUCall ==
    /\ cpuOut = NoResult
    /\ cpuOut' = CheckPointsUnchanged(platform, target, cpuIn)
    /\ target' = CallerAfter(platform, target, cpuIn)
    /\ UNCHANGED <<platform, py3, method, no_reset, source, cpuIn, board, pc, ret, exc,
                   new_target, written, runnerVars, resetLog, faultMsg, inspected, probeLog>>

NextCPU == CPUCall

SpecCPU == InitCPU /\ [][NextCPU]_vars

----------------------------------------------------------------------------
\* The flash run when the interpreter keeps running both threads: a step of
\* flash() that can be taken is taken, and so is a step of the runner thread.
\* Nothing is assumed of the board.

FlashStep == Begin \/ Probe \/ PreReset \/ Write \/ Resolve \/ JoinAndReset \/ Verify
RunnerStep == RunnerPoll \/ RunnerAux

SpecFair == Init /\ [][Next]_vars /\ WF_vars(FlashStep) /\ WF_vars(RunnerStep)

----------------------------------------------------------------------------
\* Claims

Verified == pc = "done" /\ inspected # {}
MarkerFree(dir) == Listing(dir) \cap {FAIL_TXT, ASSERT_TXT, tail} = {}
PostResets == {i \in DOMAIN resetLog : resetLog[i].phase = "post"}
Matching(lines) == {i \in 1..Len(lines) : Found(lines[i].name, TID)}
CPUDone == cpuOut.kind # "none"

\* C1: a direct-copy flash that wrote the image and whose verification finds
\* the mount point without FAIL.TXT, ASSERT.TXT and the image returns 0,
\* whatever the resolver and the runner thread saw before.
C1_CleanMountSucceeds ==
    (Verified /\ method = "simple" /\ written = "full" /\ MarkerFree(target["mount_point"]))
        => (ret = 0 /\ exc = "none")

C1_Witness ==
    /\ Verified /\ written = "full" /\ MarkerFree(target["mount_point"])
    /\ ret = 0
    /\ wresult = "timedout"
    /\ Has(new_target.dict, "serial_port")
    /\ boardMount = target["mount_point"]

C3_AmbiguousIsError ==
    (/\ CPUDone /\ platform = "Linux" /\ Has(target, "serial_port")
     /\ \/ Cardinality(Matching(cpuIn.serial)) >= 2
        \/ Cardinality(Matching(cpuIn.disk)) >= 2)
        => (cpuOut.kind = "int" /\ cpuOut.code \in {-10, -11})

\* C4: an identity error of the resolver is what flash returns, at once: the
\* runner thread is never started, no second reset is sent and no file of the
\* mount point is looked for.
C4_IdentityErrorAborts ==
    new_target.kind = "int" =>
        /\ pc = "done" /\ exc = "none" /\ ret = new_target.code
        /\ wpc = "idle" /\ wresult = "none"
        /\ PostResets = {}
        /\ inspected = {}

C4_Witness ==
    /\ new_target.kind = "int" /\ new_target.code = -10
    /\ pc = "done" /\ ret = -10
    /\ written = "full"

\* C5: on the by-id platform, once a disk-by-id entry matches and no vfat mount
\* of that device shows in any of the 10 readings of the mount table, the
\* resolver gives -12.
C5_RemountNotObserved ==
    (/\ CPUDone /\ platform = "Linux" /\ cpuOut.kind # "raise"
     /\ Has(target, "serial_port")
     /\ ~(cpuOut.kind = "int" /\ cpuOut.code \in {-10, -11})
     /\ Matching(cpuIn.disk) # {}
     /\ LET first == CHOOSE i \in Matching(cpuIn.disk) : \A k \in Matching(cpuIn.disk) : i <= k
        IN  \A a \in 1..MountAttempts : \A j \in 1..Len(cpuIn.polls[a]) :
               cpuIn.polls[a][j].dev # DevPath(cpuIn.disk[first]))
        => (cpuOut.kind = "int" /\ cpuOut.code = -12)

\* C6: when the resolver runs on the by-id platform while the board is mounted
\* on a directory other than the descriptor's, the descriptor it gives carries
\* that directory as mount_point (and the verification looks there).
C6_CarriesNewMount ==
    [][(/\ pc = "resolve" /\ pc' = "join" /\ platform = "Linux"
        /\ boardMount # <<>> /\ boardMount # target["mount_point"])
          => (/\ Has(new_target'.dict, "mount_point")
              /\ new_target'.dict["mount_point"] = boardMount
              /\ VerifyMount(new_target'.dict, target) = boardMount)]_vars

\* C7: a result of check_points_unchanged that is no error has the input's
\* target_id and both serial_port and mount_point, each the newly found value
\* if it changed and the input's if it did not.
C7_MergedDescriptor ==
    (CPUDone /\ cpuOut.kind = "dict" /\ Has(target, "serial_port")) =>
        LET d == cpuOut.dict
            moved == {i \in Matching(cpuIn.serial) :
                        Last(cpuIn.serial[i].link) # Last(target["serial_port"])}
        IN  /\ Has(d, "target_id") /\ d["target_id"] = target["target_id"]
            /\ Has(d, "serial_port")
            /\ Has(d, "mount_point")
            /\ platform = "Darwin" =>
                  d["serial_port"] = target["serial_port"]
            /\ platform = "Windows" =>
                  d["serial_port"] = IF cpuIn.q1 # target["serial_port"]
                                     THEN cpuIn.q1 ELSE target["serial_port"]
            /\ platform = "Linux" =>
                  IF moved = {} THEN d["serial_port"] = target["serial_port"]
                  ELSE d["serial_port"] \in {DevPath(cpuIn.serial[i]) : i \in moved}

\* C8: with no_reset, reset_board is never called, before or after the write.
C8_NoResetMeansNoReset == no_reset => resetLog = <<>>

C8_Witness ==
    /\ no_reset /\ Has(target, "serial_port")
    /\ Verified /\ ret = 0
    /\ Has(new_target.dict, "serial_port")

\* C9: a reset whose serial line cannot be opened does not end flash with an
\* exception: reset_board gives an error value and flash goes on.
C9_ResetNonFatal ==
    (\E i \in DOMAIN resetLog : ~resetLog[i].opened) => exc # "AttributeError"

\* C10 as stated: the second reset goes to the serial device the board has
\* after the remount wait; when the resolver saw the caller's port and the
\* board has another one by the end of the wait, the reset goes to that other
\* one.
C10_Original ==
    \A i \in PostResets :
        (/\ platform # "Darwin"
         /\ ~Has(new_target.dict, "serial_port")
         /\ resetLog[i].board # Last(target["serial_port"]))
            => resetLog[i].port = PortPath(resetLog[i].board)

\* C10 amended: the resolver has run, once, before the runner thread is
\* started, and the second reset goes to the serial port the resolver gave
\* then (the caller's port if it gave none).
C10_ResetUsesResolvedPort ==
    /\ wpc # "idle" => new_target.kind = "dict"
    /\ \A i \in PostResets :
          resetLog[i].port = IF Has(new_target.dict, "serial_port")
                             THEN new_target.dict["serial_port"]
                             ELSE target["serial_port"]

C10_Witness ==
    \E i \in PostResets :
        /\ platform = "Linux"
        /\ wresult = "settled"
        /\ Has(new_target.dict, "serial_port")
        /\ resetLog[i].port = new_target.dict["serial_port"]
        /\ resetLog[i].port # target["serial_port"]
        /\ resetLog[i].port # PortPath(resetLog[i].board)

\* C11: the runner thread never ends by raising, and when it has ended without
\* settling flash still sends the second reset (unless no_reset) and reaches
\* the verification, whose value is decided by the files of the mount point
\* alone.
C11_WatcherAdvisory ==
    /\ wresult # "crashed"
    /\ (pc = "done" /\ wresult = "timedout") =>
          /\ exc = "none"
          /\ Verified
          /\ ~no_reset => PostResets # {}
          /\ LET mount == target["mount_point"]
             IN  ret = Verification(IsFile(mount, FAIL_TXT), IsFile(mount, ASSERT_TXT),
                                    IsFile(mount, tail)).ret

C13_IoErrorIsOutcome ==
    pc = "done" => exc \notin {"IOError", "OSError"}

\* C14: a direct-copy flash of an empty source ends at the write step with an
\* error value, on every platform: nothing reaches the drive, the resolver and
\* the runner thread are not run, no second reset is sent, 0 is not returned.
C14_EmptySourceFailsFast ==
    (method = "simple" /\ source = "empty") =>
        /\ written = "none"
        /\ pc \in {"start", "prereset", "write", "done"}
        /\ new_target = NoResult /\ wpc = "idle"
        /\ PostResets = {}
        /\ pc = "done" => (exc # "none" \/ ret # 0)

Alive == wpc \in {"sleep", "aux"}

\* C15: with method 'pyocd' the board gets reset, flashBinary, reset in that
\* order and nothing else of flash runs: no reset_board call, no write to the
\* drive, no resolver, no runner thread, no verification; and whatever the
\* pyOCD calls raise, flash returns a failure value.
C15_ProbeDelegation ==
    method = "pyocd" =>
        /\ resetLog = <<>> /\ written = "none"
        /\ new_target = NoResult /\ wpc = "idle" /\ inspected = {}
        /\ \E n \in 0..Len(ProbeCalls) : probeLog = SubSeq(ProbeCalls, 1, n)
        /\ (pc = "done" /\ exc = "none" /\ ret = 0) => probeLog = ProbeCalls
        /\ (pc = "done" /\ probeLog # ProbeCalls) => (exc = "none" /\ ret # 0)
        /\ exc = "none"

\* C16: the runner thread ends as settled only at a poll whose listing shows
\* a .HTM file and not the image, or on Windows after an empty listing when
\* the second look shows a .HTM file and not the image; a poll that does not
\* settle ends the thread only by the timeout.
C16_SettlesOnlyWhenConsumed ==
    /\ [][(wresult = "none" /\ wresult' = "settled") =>
             LET out == Listing(target["mount_point"])
             IN  /\ tail \notin out
                 /\ ShowsHTM(out)
                 /\ wpc = "aux" => platform = "Windows"]_vars
    /\ [][(wresult = "none" /\ wresult' \notin {"none", "settled"}) =>
             (wresult' = "timedout" /\ TimedOut(elapsed'))]_vars

\* C17: while the runner thread is alive flash is in its join loop and does
\* nothing else: no second reset has been sent and no file of the mount point
\* has been looked for; the thread is started once, from the join of one flash.
C17_OrchestratorWaits ==
    /\ [](Alive => (pc = "join" /\ PostResets = {} /\ inspected = {}))
    /\ [][Alive => UNCHANGED <<pc, ret, exc, resetLog, inspected, new_target, written>>]_vars
    /\ [][(~Alive /\ Alive') => (wpc = "idle" /\ pc = "resolve" /\ pc' = "join")]_vars

C17_Witness ==
    /\ pc = "done" /\ Verified
    /\ wresult = "settled" /\ wpc = "dead"
    /\ PostResets # {}
    /\ ret = -4

\* C18: on Windows a changed serial port is reported as the port that was
\* compared with the previous one, so it differs from the previous one, also
\* when the two queries are answered differently; an unchanged port gives
\* the input descriptor back.
C18_ReportsComparedPort ==
    (CPUDone /\ platform = "Windows" /\ Has(target, "serial_port")) =>
        IF cpuIn.q1 # target["serial_port"]
        THEN /\ cpuOut.kind = "dict"
             /\ Has(cpuOut.dict, "serial_port")
             /\ cpuOut.dict["serial_port"] = cpuIn.q1
             /\ cpuOut.dict["serial_port"] # target["serial_port"]
        ELSE cpuOut = DictResult(target)

\* C19: a direct-copy flash returns 0 only after the whole image was stored
\* on the drive: not after a failed copy, not after a short write.
C19_SuccessOnlyIfWritten ==
    (method = "simple" /\ pc = "done" /\ exc = "none" /\ ret = 0) => written = "full"

\* C20: no step of flash, the call of check_points_unchanged in it included,
\* changes the caller's target: on every path, error paths too, the dict has
\* the keys and values it had; what changed is in the returned value only.
C20_TargetNotMutated ==
    [][target' = target]_vars

C20_Witness ==
    /\ pc = "done" /\ Verified
    /\ new_target.kind = "dict"
    /\ new_target.dict # target
    /\ Has(new_target.dict, "serial_port")
    /\ new_target.dict["serial_port"] # target["serial_port"]

====
